---- MODULE Spec2Model ----
(***************************************************************************)
(* Ideal-gas balloon simulator (main.js, physics.js, state.js).            *)
(*                                                                         *)
(* The state is SimulationState (mode, isRunning, env, balloon,            *)
(* animation), the three range inputs that recalculateMoles reads back     *)
(* from the page, the direction selected for the next ramp, and the queue  *)
(* of pending setTimeout callbacks.  One action per DOM event handler, one *)
(* per phase of animate(), one for the delayed reset callback.             *)
(*                                                                         *)
(* Numbers.  A JavaScript Number is modelled as a rational [n, d] in       *)
(* lowest terms, with d = 0 for Infinity (n = 1), -Infinity (n = -1) and   *)
(* NaN (n = 0).  Sums, products and quotients are exact whenever the       *)
(* exact result fits the 32-bit integers of TLC; a result that does not    *)
(* fit is computed as IEEE arithmetic computes it, from the operands       *)
(* rounded to a binary mantissa (30 bits here, 53 in the program).         *)
(* Math.pow with a fractional exponent is the only operation that is not   *)
(* rational; Cbrt and Pow below say how it is evaluated.                   *)
(***************************************************************************)
EXTENDS Integers, Sequences, FiniteSets, TLC

\* ------------------------------------------------------------------------
\* Numbers
\* ------------------------------------------------------------------------

\* Largest integer TLC computes with.
MaxInt == 2147483646 + 1

\* The element of a singleton set: Only({e(x) : x \in {a}}) is e(a), with a
\* evaluated once.
Only(S) == CHOOSE x \in S : TRUE

Abs(i) == IF i < 0 THEN -i ELSE i

Sgn(i) == IF i < 0 THEN -1 ELSE IF i > 0 THEN 1 ELSE 0

RECURSIVE GCD(_, _)
GCD(a, b) == IF b = 0 THEN a ELSE GCD(b, a % b)

\* The rational n/d in lowest terms, d > 0 (d = 0: the non-finite values).
Q(n, d) ==
    IF d = 0 THEN [n |-> Sgn(n), d |-> 0]
    ELSE LET g == GCD(Abs(n), Abs(d))
         IN  [n |-> Sgn(d) * (n \div g), d |-> Abs(d) \div g]

Int2R(i) == [n |-> i, d |-> 1]

Zero == Int2R(0)
One == Int2R(1)
Infinity == [n |-> 1, d |-> 0]
NaN == [n |-> 0, d |-> 0]

IsFinite(x) == x.d # 0
IsNaN(x) == x.d = 0 /\ x.n = 0

\* a * b does not overflow (a, b >= 0).
Fits(a, b) == a = 0 \/ b = 0 \/ a <= MaxInt \div b

Two15 == 32768 * 1
Two29 == Two15 * 16384
Two30 == Two15 * Two15

\* 2^k for 0 <= k <= 30
PowersOfTwo ==
    <<1, 2, 4, 8, 16, 32, 64, 128, 256, 512, 1024, 2048, 4096, 8192, 16384,
      32768, 65536, 131072, 262144, 524288, 1048576, 2097152, 4194304, 8388608,
      16777216, 33554432, 67108864, 134217728, 268435456, 536870912, 1073741824>>

Pow2(k) == PowersOfTwo[k + 1]

\* The number of binary digits of n, for 0 <= n <= MaxInt.
BitLen(n) ==
    IF n >= Two30 THEN 31
    ELSE CHOOSE k \in (IF n < 256 THEN 0..8 ELSE IF n < 65536 THEN 9..16
                       ELSE IF n < 16777216 THEN 17..24 ELSE 25..30) : n < Pow2(k)

\* A result that does not fit is computed as IEEE arithmetic computes it, with
\* a 30-bit mantissa: a float [m, e] stands for m / 2^e.
\* Long division of n by d, x = <<q, r, e>> with n * 2^e = q * d + r and
\* 0 <= r < d: Digit finds the next binary digit of the quotient unless the
\* quotient has its 30 bits.
Digit(x, d) ==
    IF x[1] >= Two29 THEN x
    ELSE IF x[2] >= d - x[2] THEN <<2 * x[1] + 1, x[2] - (d - x[2]), x[3] + 1>>
    ELSE <<2 * x[1], 2 * x[2], x[3] + 1>>

Digits(x, d) == Digit(Digit(Digit(Digit(Digit(Digit(Digit(Digit(x, d), d), d), d), d), d), d), d)

RECURSIVE Mantissa(_, _)
Mantissa(x, d) ==
    IF x[1] >= Two29 THEN [m |-> x[1], e |-> x[3]] ELSE Mantissa(Digits(x, d), d)

\* The float of n / d, for n > 0; a denominator that is a power of two needs
\* no division.
Float(n, d) ==
    IF n \div d >= Two30 THEN [m |-> (n \div d) \div 2, e |-> -1]
    ELSE IF d = Pow2(BitLen(d) - 1)
    THEN IF n >= Two30 THEN [m |-> n \div 2, e |-> BitLen(d) - 2]
         ELSE [m |-> n * Pow2(30 - BitLen(n)), e |-> BitLen(d) - 1 + 30 - BitLen(n)]
    ELSE Mantissa(<<n \div d, n % d, 0>>, d)

\* The rational m / 2^e, for 0 <= m <= MaxInt.
Unfloat(m, e) ==
    IF e < 0 THEN [n |-> m * Pow2(-e), d |-> 1]
    ELSE IF e <= 30 THEN Q(m, Pow2(e))
    ELSE IF e >= 61 THEN [n |-> 0, d |-> 1]
    ELSE Q(m \div Pow2(e - 30), Two30)

\* The upper 30 bits of the 60-bit product of two mantissas.
MulFloat(x, y) ==
    LET a1 == x.m \div Two15
        a0 == x.m % Two15
        b1 == y.m \div Two15
        b0 == y.m % Two15
    IN  Unfloat(a1 * b1 + (a1 * b0 + a0 * b1 + (a0 * b0) \div Two15) \div Two15,
                x.e + y.e - 30)

\* sa * x + sb * y for signs sa, sb: the operand of smaller magnitude is
\* shifted to the exponent of the other.
AddFloat(sa, x, sb, y) ==
    LET e == IF x.e <= y.e THEN x.e ELSE y.e
        xm == IF x.e - e >= 30 THEN 0 ELSE x.m \div Pow2(x.e - e)
        ym == IF y.e - e >= 30 THEN 0 ELSE y.m \div Pow2(y.e - e)
        sum == sa * xm + sb * ym
        r == Unfloat(Abs(sum), e)
    IN  [n |-> Sgn(sum) * r.n, d |-> r.d]

RNeg(x) == [n |-> -x.n, d |-> x.d]

RMul(a, b) ==
    IF a.d = 0 \/ b.d = 0
    THEN IF IsNaN(a) \/ IsNaN(b) \/ a.n = 0 \/ b.n = 0 THEN NaN
         ELSE [n |-> Sgn(a.n) * Sgn(b.n), d |-> 0]
    ELSE IF a.n = 0 \/ b.n = 0 THEN [n |-> 0, d |-> 1]
    ELSE LET g1 == GCD(Abs(a.n), b.d)
             g2 == GCD(Abs(b.n), a.d)
             n1 == Abs(a.n) \div g1
             n2 == Abs(b.n) \div g2
             d1 == a.d \div g2
             d2 == b.d \div g1
             p == IF Fits(n1, n2) /\ Fits(d1, d2) THEN [n |-> n1 * n2, d |-> d1 * d2]
                  ELSE MulFloat(Float(n1, d1), Float(n2, d2))
         IN  [n |-> Sgn(a.n) * Sgn(b.n) * p.n, d |-> p.d]

\* 1/x; 1/0 is Infinity as in JavaScript.
RInv(x) ==
    IF x.d = 0 THEN IF IsNaN(x) THEN NaN ELSE Zero
    ELSE IF x.n = 0 THEN Infinity
    ELSE [n |-> Sgn(x.n) * x.d, d |-> Abs(x.n)]

RDiv(a, b) ==
    IF a.n = 0 /\ a.d # 0 /\ b.n = 0 /\ b.d # 0 THEN NaN ELSE RMul(a, RInv(b))

RAdd(a, b) ==
    IF a.d = 0 \/ b.d = 0
    THEN IF IsNaN(a) \/ IsNaN(b) THEN NaN
         ELSE IF a.d = 0 /\ b.d = 0 /\ a.n # b.n THEN NaN
         ELSE IF a.d = 0 THEN a ELSE b
    ELSE LET g == GCD(a.d, b.d)
             m1 == b.d \div g
             m2 == a.d \div g
         IN  IF \/ a.n = 0 \/ b.n = 0 \/ (a.d = 1 /\ b.d = 1)
                \/ /\ Fits(Abs(a.n), m1) /\ Fits(Abs(b.n), m2) /\ Fits(a.d, m1)
                   /\ Abs(a.n) * m1 <= MaxInt - Abs(b.n) * m2
             THEN Q(a.n * m1 + b.n * m2, a.d * m1)
             ELSE AddFloat(Sgn(a.n), Float(Abs(a.n), a.d), Sgn(b.n), Float(Abs(b.n), b.d))

RSub(a, b) == RAdd(a, RNeg(b))

\* Comparisons; every comparison with NaN is false.
RLt(a, b) == ~IsNaN(a) /\ ~IsNaN(b) /\ a # b /\ RSub(a, b).n < 0
RLe(a, b) == ~IsNaN(a) /\ ~IsNaN(b) /\ (a = b \/ RSub(a, b).n < 0)
RGt(a, b) == RLt(b, a)
RGe(a, b) == RLe(b, a)

\* Math.min, Math.max, Math.sign
RMin(a, b) == IF IsNaN(a) \/ IsNaN(b) THEN NaN ELSE IF RLe(a, b) THEN a ELSE b
RMax(a, b) == IF IsNaN(a) \/ IsNaN(b) THEN NaN ELSE IF RGe(a, b) THEN a ELSE b
RSign(x) == IF IsNaN(x) THEN NaN ELSE Int2R(Sgn(x.n))

\* Largest k with k^3 <= m, for 0 <= m <= MaxInt (1290^3 < 2^31 < 1291^3).
RECURSIVE CbrtSearch(_, _, _)
CbrtSearch(m, lo, hi) ==
    IF lo = hi THEN lo
    ELSE LET mid == (lo + hi + 1) \div 2
         IN  IF mid * mid * mid <= m THEN CbrtSearch(m, mid, hi)
             ELSE CbrtSearch(m, lo, mid - 1)

ICbrt(m) == CbrtSearch(m, 0, 1290)

IsCube(m) == LET k == ICbrt(m) IN k * k * k = m

\* The integer whose cube is nearest to m, for 0 <= m <= MaxInt.
NearestCbrt(m) ==
    LET k == ICbrt(m)
    IN  IF k < 1290 /\ (k + 1) * (k + 1) * (k + 1) - m <= m - k * k * k THEN k + 1 ELSE k

\* Math.pow(x, 1/3) for x >= 0: the exact root when x is the cube of a
\* rational, and otherwise the root rounded to two decimals (to one decimal,
\* to an integer, for an x whose root has four, five or more digits).
Cbrt(x) ==
    IF x.d = 0 THEN x
    ELSE IF x.n < 0 THEN NaN
    ELSE IF IsCube(x.n) /\ IsCube(x.d) THEN [n |-> ICbrt(x.n), d |-> ICbrt(x.d)]
    ELSE LET whole == x.n \div x.d
             scale == IF whole < 2000 THEN 100 ELSE IF whole < 2000000 THEN 10 ELSE 1
             y == RMul(x, Int2R(scale * scale * scale))
         IN  Q(NearestCbrt(y.n \div y.d), scale)

RECURSIVE IPow(_, _)
IPow(x, k) == IF k = 0 THEN One ELSE RMul(x, IPow(x, k - 1))

\* Math.pow(base, exponent) for base > 0 and exponent >= 0: the integer part
\* of the exponent by repeated multiplication, the fractional part f by the
\* first-order expansion base^f = 1 + f * (base - 1), which is positive for
\* every base > 0 and exact at base = 1.
Pow(base, exponent) ==
    LET k == exponent.n \div exponent.d
        f == RSub(exponent, Int2R(k))
    IN  RMul(IPow(base, k), RAdd(One, RMul(f, RSub(base, One))))

\* ------------------------------------------------------------------------
\* Constants of the program
\* ------------------------------------------------------------------------

R == Q(8314, 1000)

PI == Q(22, 7)

MolarMass(gasType) ==
    CASE gasType = "HE" -> Q(40026, 10000000)
      [] gasType = "NE" -> Q(201797, 10000000)
      [] gasType = "AR" -> Q(39948, 1000000)

GasTypes == {"HE", "NE", "AR"}

Modes == {"IDLE", "BOYLE", "CHARLES", "GAY-LUSSAC", "MISSION"}

\* Sea-level values of state.js and resetMissionState.
SeaLevelPressure == Int2R(101325)
SeaLevelTemperature == Int2R(293)
DefaultRadius == One

\* Limits of the ramps started by btnStartEdu.
PRESSURE_MIN == Int2R(10000)
PRESSURE_MAX == Int2R(200000)
TEMP_MIN == Int2R(100)
TEMP_MAX == Int2R(500)

\* min and max attributes of the range inputs, which the number fields clamp
\* to.  The page that sets them is not part of the sources; the pressure and
\* temperature ranges are taken to be the limits of the ramps.
SliderPressureMin == PRESSURE_MIN
SliderPressureMax == PRESSURE_MAX
SliderTempMin == TEMP_MIN
SliderTempMax == TEMP_MAX
SliderMaxRadiusMin == One
SliderMaxRadiusMax == Int2R(10)
SliderInitialRadiusMin == Q(1, 2)
SliderInitialRadiusMax == Int2R(3)
SliderPayloadMassMin == Q(1, 10)
SliderPayloadMassMax == Int2R(10)

\* Math.max(min, Math.min(max, value))
Clamp(value, min, max) == RMax(min, RMin(max, value))

\* ------------------------------------------------------------------------
\* Bounds of the model and the inputs it draws
\* ------------------------------------------------------------------------

\* User events (handlers run) in one behaviour.
MaxEvents == 2

\* Pending delayed resets beyond which no further frame is started.
MaxPendingResets == 2

\* Frames of one ramp (tenths of a second of animation.elapsed) after which
\* no further frame is started while the ramp is active.
MaxRampTenths == 2

\* Altitude (m) above which no further frame is started while in flight.
MaxAltitude == 1

\* Milliseconds between the timestamps of two frames: none, and at and far
\* above the 100 ms cap.
FrameGaps == {0, 100, 5000}

\* Values a user gives the controls (NaN: a number field that does not parse).
PressureInputs == {Int2R(50000)}
PressureTyped == {Int2R(50000), Int2R(250000), NaN}
TemperatureInputs == {Int2R(400)}
TemperatureTyped == {Int2R(400), Int2R(50), NaN}
MaxRadiusInputs == {One}
MaxRadiusTyped == {Q(1, 2), Int2R(2), NaN}
InitialRadiusInputs == {Int2R(2)}
InitialRadiusTyped == {Int2R(2), Int2R(5), NaN}
PayloadInputs == {Int2R(10)}
PayloadTyped == {Int2R(50), Int2R(5), NaN}

\* ------------------------------------------------------------------------
\* State
\* ------------------------------------------------------------------------

VARIABLES
    mode,               \* SimulationState.mode
    isRunning,          \* SimulationState.isRunning
    env,                \* SimulationState.env
    balloon,            \* SimulationState.balloon
    animation,          \* SimulationState.animation
    ui,                 \* value of the range inputs sliderPressure, sliderTemp, sliderInitialRadius
    selectedDirection,  \* main.js selectedDirection
    timers,             \* number of setTimeout reset callbacks not yet run
    pc,                 \* position of animate(): "idle" between frames
    deltaTime,          \* animate's deltaTime during a frame
    result,             \* result.exploded of the frame's simulationLoop call
    hist                \* history: what the claims compare the state with

vars == <<mode, isRunning, env, balloon, animation, ui, selectedDirection,
          timers, pc, deltaTime, result, hist>>

\* ------------------------------------------------------------------------
\* physics.js
\* ------------------------------------------------------------------------

\* Variant of getAtmosphere without the lower limit of 1 on the temperature.
getAtmosphereUnclamped(altitude) ==
    LET T0 == Int2R(293)
        P0 == Int2R(101325)
        L == Q(65, 10000)
        g == Q(981, 100)
        M_air == Q(289644, 10000000)
        exponent == RDiv(RMul(g, M_air), RMul(R, L))
    IN  Only({ [pressure |-> IF RGt(base, Zero) THEN RMul(P0, Pow(base, exponent))
                             ELSE Zero,
                temperature |-> RSub(T0, RMul(L, altitude))]
               : base \in {RSub(One, RDiv(RMul(L, altitude), T0))} })

getAtmosphere(altitude) ==
    LET T0 == Int2R(293)
        P0 == Int2R(101325)
        L == Q(65, 10000)
        g == Q(981, 100)
        M_air == Q(289644, 10000000)
        exponent == RDiv(RMul(g, M_air), RMul(R, L))
    IN  Only({ Only({ [pressure |-> IF RGt(base, Zero) THEN RMul(P0, Pow(base, exponent))
                                    ELSE Zero,
                       temperature |-> IF RLt(t, One) THEN One ELSE t]
                      : base \in {RSub(One, RDiv(RMul(L, altitude), T0))} })
               : t \in {RSub(T0, RMul(L, altitude))} })

\* Variant of calculateVolume that divides by the sea-level pressure instead of
\* the pressure given.
calculateVolumeAtSeaLevel(n, T, P) == RDiv(RMul(RMul(n, R), T), Int2R(101325))

\* Variant of calculateVolume that takes the sea-level temperature instead of
\* the temperature given.
calculateVolumeAtSeaLevelTemperature(n, T, P) ==
    IF RLe(P, Zero) THEN Infinity ELSE RDiv(RMul(RMul(n, R), Int2R(293)), P)

\* Variant of calculateVolume that returns 0 instead of Infinity when there is
\* no pressure.
calculateVolumeCollapsing(n, T, P) ==
    IF RLe(P, Zero) THEN Zero ELSE RDiv(RMul(RMul(n, R), T), P)

calculateVolume(n, T, P) ==
    IF RLe(P, Zero) THEN Infinity ELSE RDiv(RMul(RMul(n, R), T), P)

\* Variant of calculateMoles that takes the sea-level pressure instead of the
\* pressure given.
calculateMolesAtSeaLevel(P, V, T) == RDiv(RMul(Int2R(101325), V), RMul(R, T))

calculateMoles(P, V, T) == RDiv(RMul(P, V), RMul(R, T))

\* Variant of EnvironmentUpdate without the guard on mode and isRunning.
EnvironmentUpdateUnguarded(m, run, e, b, dt) ==
    Only({ Only({ [env |-> [e EXCEPT !.altitude = altitude,
                                     !.pressure = envData.pressure,
                                     !.temperature = envData.temperature],
                   balloon |-> [b EXCEPT !.positionY = altitude]]
                  : envData \in {getAtmosphere(altitude)} })
           : altitude \in {RAdd(e.altitude, RMul(b.velocity, dt))} })

\* Variant of EnvironmentUpdate that moves env.altitude and leaves
\* balloon.positionY behind.
EnvironmentUpdateWithoutPosition(m, run, e, b, dt) ==
    IF m = "MISSION" /\ run
    THEN Only({ Only({ [env |-> [e EXCEPT !.altitude = altitude,
                                          !.pressure = envData.pressure,
                                          !.temperature = envData.temperature],
                        balloon |-> b]
                       : envData \in {getAtmosphere(altitude)} })
                : altitude \in {RAdd(e.altitude, RMul(b.velocity, dt))} })
    ELSE [env |-> e, balloon |-> b]

\* 1. ENVIRONMENT UPDATE
EnvironmentUpdate(m, run, e, b, dt) ==
    IF m = "MISSION" /\ run
    THEN Only({ Only({ [env |-> [e EXCEPT !.altitude = altitude,
                                          !.pressure = envData.pressure,
                                          !.temperature = envData.temperature],
                        balloon |-> [b EXCEPT !.positionY = altitude]]
                       : envData \in {getAtmosphere(altitude)} })
                : altitude \in {RAdd(e.altitude, RMul(b.velocity, dt))} })
    ELSE [env |-> e, balloon |-> b]

\* r = cbrt(3V / 4pi)
RadiusOfVolume(volume) ==
    Cbrt(RDiv(RMul(Int2R(3), volume), RMul(Int2R(4), PI)))

\* Variant of GasLaws without the Gay-Lussac exception.
GasLawsInEveryMode(m, e, b) ==
    LET volume == calculateVolume(b.moles, e.temperature, e.pressure)
    IN  [b EXCEPT !.volume = volume, !.radius = RadiusOfVolume(volume)]

\* Variant of GasLaws that also recomputes the moles from the volume it found.
GasLawsRefilling(m, e, b) ==
    IF m = "GAY-LUSSAC" THEN b
    ELSE LET volume == calculateVolume(b.moles, e.temperature, e.pressure)
         IN  [b EXCEPT !.volume = volume, !.radius = RadiusOfVolume(volume),
                       !.moles = calculateMoles(e.pressure, b.volume, e.temperature)]

\* 2. GAS LAWS
GasLaws(m, e, b) ==
    IF m = "GAY-LUSSAC" THEN b
    ELSE Only({ [b EXCEPT !.volume = volume, !.radius = RadiusOfVolume(volume)]
                : volume \in {calculateVolume(b.moles, e.temperature, e.pressure)} })

\* Variant of ForcesAndMovement without the floor collision.
ForcesAndMovementThroughFloor(m, run, e, b, dt) ==
    IF m = "MISSION" /\ run
    THEN LET g == e.gravity
             M_air == Q(289644, 10000000)
             M_gas == MolarMass(b.gasType)
             Cd == Q(47, 100)
         IN  Only({ Only({ Only({ Only({
                 [env |-> e, balloon |-> [b EXCEPT !.velocity = velocity]]
                 : velocity \in {RAdd(b.velocity, RMul(RDiv(totalForce, totalMass), dt))} })
                 : totalForce \in
                       {LET liftForce == RMul(RMul(rhoAir, b.volume), g)
                            gravityForce == RMul(totalMass, g)
                            netForce == RSub(liftForce, gravityForce)
                            Area == RMul(RMul(PI, b.radius), b.radius)
                            dragForce ==
                                RMul(RMul(RMul(RMul(RMul(RNeg(RSign(b.velocity)), Q(1, 2)),
                                                    rhoAir),
                                               RMul(b.velocity, b.velocity)), Cd), Area)
                        IN  RAdd(netForce, dragForce)} })
                 : totalMass \in {RAdd(RAdd(b.massPayload, b.massBalloon),
                                       RMul(b.moles, M_gas))} })
                 : rhoAir \in {RDiv(RMul(e.pressure, M_air), RMul(R, e.temperature))} })
    ELSE [env |-> e, balloon |-> b]

\* Variant of ForcesAndMovement with the net force taken as weight minus lift.
ForcesAndMovementInverted(m, run, e, b, dt) ==
    IF m = "MISSION" /\ run
    THEN LET g == e.gravity
             M_air == Q(289644, 10000000)
             M_gas == MolarMass(b.gasType)
             Cd == Q(47, 100)
         IN  Only({ Only({ Only({ Only({
                 IF RLt(e.altitude, Zero)
                 THEN [env |-> [e EXCEPT !.altitude = Zero],
                       balloon |-> [b EXCEPT !.positionY = Zero, !.velocity = Zero]]
                 ELSE [env |-> e, balloon |-> [b EXCEPT !.velocity = velocity]]
                 : velocity \in {RAdd(b.velocity, RMul(RDiv(totalForce, totalMass), dt))} })
                 : totalForce \in
                       {LET liftForce == RMul(RMul(rhoAir, b.volume), g)
                            gravityForce == RMul(totalMass, g)
                            netForce == RSub(gravityForce, liftForce)
                            Area == RMul(RMul(PI, b.radius), b.radius)
                            dragForce ==
                                RMul(RMul(RMul(RMul(RMul(RNeg(RSign(b.velocity)), Q(1, 2)),
                                                    rhoAir),
                                               RMul(b.velocity, b.velocity)), Cd), Area)
                        IN  RAdd(netForce, dragForce)} })
                 : totalMass \in {RAdd(RAdd(b.massPayload, b.massBalloon),
                                       RMul(b.moles, M_gas))} })
                 : rhoAir \in {RDiv(RMul(e.pressure, M_air), RMul(R, e.temperature))} })
    ELSE [env |-> e, balloon |-> b]

\* 3. FORCES & MOVEMENT: rhoAir, totalMass, totalForce (netForce + dragForce) and
\* the new velocity, each computed once; then the floor collision.
ForcesAndMovement(m, run, e, b, dt) ==
    IF m = "MISSION" /\ run
    THEN LET g == e.gravity
             M_air == Q(289644, 10000000)
             M_gas == MolarMass(b.gasType)
             Cd == Q(47, 100)
         IN  Only({ Only({ Only({ Only({
                 IF RLt(e.altitude, Zero)
                 THEN [env |-> [e EXCEPT !.altitude = Zero],
                       balloon |-> [b EXCEPT !.positionY = Zero, !.velocity = Zero]]
                 ELSE [env |-> e, balloon |-> [b EXCEPT !.velocity = velocity]]
                 : velocity \in {RAdd(b.velocity, RMul(RDiv(totalForce, totalMass), dt))} })
                 : totalForce \in
                       {LET liftForce == RMul(RMul(rhoAir, b.volume), g)
                            gravityForce == RMul(totalMass, g)
                            netForce == RSub(liftForce, gravityForce)
                            Area == RMul(RMul(PI, b.radius), b.radius)
                            dragForce ==
                                RMul(RMul(RMul(RMul(RMul(RNeg(RSign(b.velocity)), Q(1, 2)),
                                                    rhoAir),
                                               RMul(b.velocity, b.velocity)), Cd), Area)
                        IN  RAdd(netForce, dragForce)} })
                 : totalMass \in {RAdd(RAdd(b.massPayload, b.massBalloon),
                                       RMul(b.moles, M_gas))} })
                 : rhoAir \in {RDiv(RMul(e.pressure, M_air), RMul(R, e.temperature))} })
    ELSE [env |-> e, balloon |-> b]

\* Variant of Exploded with a strict comparison.
ExplodedStrictly(b) == RGt(b.radius, b.maxRadius)

\* 4. LIMITS & EXPLOSION
Exploded(b) == RGe(b.radius, b.maxRadius)

\* The four parts in the order of the code, each evaluated once on the state
\* the part before it left (s1, b2, s3); the result carries result.exploded.
simulationLoop(m, run, e, b, dt) ==
    Only({ Only({ Only({ [env |-> s3.env, balloon |-> s3.balloon,
                          exploded |-> Exploded(s3.balloon)]
                         : s3 \in {ForcesAndMovement(m, run, s1.env, b2, dt)} })
                  : b2 \in {GasLaws(m, s1.env, s1.balloon)} })
           : s1 \in {EnvironmentUpdate(m, run, e, b, dt)} })

\* ------------------------------------------------------------------------
\* state.js
\* ------------------------------------------------------------------------

initialEnv ==
    [altitude |-> Zero, pressure |-> Int2R(101325), temperature |-> Int2R(293),
     gravity |-> Q(981, 100)]

initialBalloon ==
    [gasType |-> "HE", moles |-> Zero, volume |-> Zero, radius |-> One,
     maxRadius |-> Int2R(5), positionY |-> Zero, velocity |-> Zero,
     massPayload |-> Q(1, 2), massBalloon |-> Q(2, 10), constantVolume |-> Zero]

initialAnimation ==
    [active |-> FALSE, startValue |-> Zero, targetValue |-> Zero,
     currentValue |-> Zero, duration |-> Int2R(10), elapsed |-> Zero,
     parameter |-> "", direction |-> 1]

\* env, balloon after resetMissionState (isRunning and animation.active are
\* set by the callers' actions).
ResetMissionEnv(e) ==
    [e EXCEPT !.altitude = Zero, !.pressure = Int2R(101325), !.temperature = Int2R(293)]

ResetMissionBalloon(b) ==
    [b EXCEPT !.positionY = Zero, !.velocity = Zero, !.radius = One]

\* ------------------------------------------------------------------------
\* main.js: helpers
\* ------------------------------------------------------------------------

InitialVolume(initialRadius) ==
    RMul(RMul(Q(4, 3), PI), IPow(initialRadius, 3))

\* balloon after recalculateMoles (initSimulation), reading the range inputs u.
recalculateMoles(b, u) ==
    LET initialRadius == u.sliderInitialRadius
        initialVolume == InitialVolume(initialRadius)
        P == u.sliderPressure
        T == u.sliderTemp
    IN  [b EXCEPT !.moles = calculateMoles(P, initialVolume, T),
                  !.volume = initialVolume,
                  !.radius = initialRadius]

\* balloon after updateControlVisibility: entering Gay-Lussac snapshots the volume.
updateControlVisibility(m, b) ==
    IF m = "GAY-LUSSAC" THEN [b EXCEPT !.constantVolume = b.volume] ELSE b

\* The range inputs after updateUI.
updateUI(a, e, u) ==
    IF ~a.active
    THEN [u EXCEPT !.sliderPressure = e.pressure, !.sliderTemp = e.temperature]
    ELSE u

\* ------------------------------------------------------------------------
\* History kept for the claims (not program state)
\* ------------------------------------------------------------------------
\*   stale     pending delayed resets scheduled before the latest mode switch
\*             or manual Reset
\*   reported  a step has reported exploded=true and radius >= maxRadius has
\*             held in every state since
\*   events    user events handled so far
\*   last      mode, pressure, temperature, volume and moles at the end of the
\*             latest engine step since the latest mode switch (mode "" when
\*             there is none)
\*   prev      the same at the end of the step before that one

NoStep ==
    [mode |-> "", pressure |-> Zero, temperature |-> Zero, volume |-> Zero, moles |-> Zero]

\* hist after an event handler that leaves the balloon as b.
Handled(h, b) ==
    [h EXCEPT !.reported = h.reported /\ Exploded(b), !.events = h.events + 1]

\* ------------------------------------------------------------------------
\* Initial state: state.js, then initSimulation() and updateControlVisibility()
\* at the end of main.js.  The range inputs start at the values of state.js.
\* ------------------------------------------------------------------------

initialUi ==
    [sliderPressure |-> Int2R(101325), sliderTemp |-> Int2R(293),
     sliderInitialRadius |-> One]

Init ==
    /\ mode = "IDLE"
    /\ isRunning = FALSE
    /\ env = initialEnv
    /\ balloon = updateControlVisibility("IDLE", recalculateMoles(initialBalloon, initialUi))
    /\ animation = initialAnimation
    /\ ui = initialUi
    /\ selectedDirection = 1
    /\ timers = 0
    /\ pc = "idle"
    /\ deltaTime = Zero
    /\ result = FALSE
    /\ hist = [stale |-> 0, reported |-> FALSE, events |-> 0, last |-> NoStep,
               prev |-> NoStep]

\* ------------------------------------------------------------------------
\* main.js: event handlers.  A handler runs to completion between frames.
\* ------------------------------------------------------------------------

Frame == <<pc, deltaTime, result>>

\* Variant of UserEvent in which a handler may also run inside a frame.
UserEventWithinFrame == hist.events < MaxEvents

\* A user event is handled between frames, while the model's bound allows.
UserEvent == pc = "idle" /\ hist.events < MaxEvents

\* gasSelect 'change'
GasSelect(gasType) ==
    /\ UserEvent
    /\ balloon' = [balloon EXCEPT !.gasType = gasType]
    /\ hist' = Handled(hist, balloon')
    /\ UNCHANGED <<mode, isRunning, env, animation, ui, selectedDirection, timers, Frame>>

PressureAllowed == mode = "IDLE" \/ mode = "BOYLE"

\* sliderPressure 'input': the range input holds value whatever the mode.
SliderPressureInput(value) ==
    /\ UserEvent
    /\ ui' = [ui EXCEPT !.sliderPressure = value]
    /\ env' = IF PressureAllowed THEN [env EXCEPT !.pressure = value] ELSE env
    /\ hist' = Handled(hist, balloon)
    /\ UNCHANGED <<mode, isRunning, balloon, animation, selectedDirection, timers, Frame>>

\* inputPressure 'input'
InputPressureInput(typed) ==
    /\ UserEvent
    /\ IF PressureAllowed /\ ~IsNaN(typed)
       THEN LET value == Clamp(typed, SliderPressureMin, SliderPressureMax)
            IN  /\ env' = [env EXCEPT !.pressure = value]
                /\ ui' = [ui EXCEPT !.sliderPressure = value]
       ELSE UNCHANGED <<env, ui>>
    /\ hist' = Handled(hist, balloon)
    /\ UNCHANGED <<mode, isRunning, balloon, animation, selectedDirection, timers, Frame>>

\* inputPressure 'blur'
InputPressureBlur(typed) ==
    /\ UserEvent
    /\ LET value == IF IsNaN(typed) THEN env.pressure
                    ELSE Clamp(typed, SliderPressureMin, SliderPressureMax)
       IN  /\ env' = [env EXCEPT !.pressure = value]
           /\ ui' = [ui EXCEPT !.sliderPressure = value]
    /\ hist' = Handled(hist, balloon)
    /\ UNCHANGED <<mode, isRunning, balloon, animation, selectedDirection, timers, Frame>>

TemperatureAllowed == mode = "IDLE" \/ mode = "CHARLES" \/ mode = "GAY-LUSSAC"

\* sliderTemp 'input'
SliderTempInput(value) ==
    /\ UserEvent
    /\ ui' = [ui EXCEPT !.sliderTemp = value]
    /\ env' = IF TemperatureAllowed THEN [env EXCEPT !.temperature = value] ELSE env
    /\ hist' = Handled(hist, balloon)
    /\ UNCHANGED <<mode, isRunning, balloon, animation, selectedDirection, timers, Frame>>

\* inputTemp 'input'
InputTempInput(typed) ==
    /\ UserEvent
    /\ IF TemperatureAllowed /\ ~IsNaN(typed)
       THEN LET value == Clamp(typed, SliderTempMin, SliderTempMax)
            IN  /\ env' = [env EXCEPT !.temperature = value]
                /\ ui' = [ui EXCEPT !.sliderTemp = value]
       ELSE UNCHANGED <<env, ui>>
    /\ hist' = Handled(hist, balloon)
    /\ UNCHANGED <<mode, isRunning, balloon, animation, selectedDirection, timers, Frame>>

\* inputTemp 'blur'
InputTempBlur(typed) ==
    /\ UserEvent
    /\ LET value == IF IsNaN(typed) THEN env.temperature
                    ELSE Clamp(typed, SliderTempMin, SliderTempMax)
       IN  /\ env' = [env EXCEPT !.temperature = value]
           /\ ui' = [ui EXCEPT !.sliderTemp = value]
    /\ hist' = Handled(hist, balloon)
    /\ UNCHANGED <<mode, isRunning, balloon, animation, selectedDirection, timers, Frame>>

\* sliderMaxRadius 'input'
SliderMaxRadiusInput(value) ==
    /\ UserEvent
    /\ balloon' = [balloon EXCEPT !.maxRadius = value]
    /\ hist' = Handled(hist, balloon')
    /\ UNCHANGED <<mode, isRunning, env, animation, ui, selectedDirection, timers, Frame>>

\* inputMaxRadius 'input'
InputMaxRadiusInput(typed) ==
    /\ UserEvent
    /\ balloon' = IF IsNaN(typed) THEN balloon
                  ELSE [balloon EXCEPT
                            !.maxRadius = Clamp(typed, SliderMaxRadiusMin, SliderMaxRadiusMax)]
    /\ hist' = Handled(hist, balloon')
    /\ UNCHANGED <<mode, isRunning, env, animation, ui, selectedDirection, timers, Frame>>

\* inputMaxRadius 'blur'
InputMaxRadiusBlur(typed) ==
    /\ UserEvent
    /\ LET value == IF IsNaN(typed) THEN balloon.maxRadius
                    ELSE Clamp(typed, SliderMaxRadiusMin, SliderMaxRadiusMax)
       IN  balloon' = [balloon EXCEPT !.maxRadius = value]
    /\ hist' = Handled(hist, balloon')
    /\ UNCHANGED <<mode, isRunning, env, animation, ui, selectedDirection, timers, Frame>>

\* sliderInitialRadius 'input'
SliderInitialRadiusInput(value) ==
    /\ UserEvent
    /\ ui' = [ui EXCEPT !.sliderInitialRadius = value]
    /\ balloon' = recalculateMoles(balloon, ui')
    /\ hist' = Handled(hist, balloon')
    /\ UNCHANGED <<mode, isRunning, env, animation, selectedDirection, timers, Frame>>

\* inputInitialRadius 'input'
InputInitialRadiusInput(typed) ==
    /\ UserEvent
    /\ IF IsNaN(typed) THEN UNCHANGED <<ui, balloon>>
       ELSE /\ ui' = [ui EXCEPT !.sliderInitialRadius =
                          Clamp(typed, SliderInitialRadiusMin, SliderInitialRadiusMax)]
            /\ balloon' = recalculateMoles(balloon, ui')
    /\ hist' = Handled(hist, balloon')
    /\ UNCHANGED <<mode, isRunning, env, animation, selectedDirection, timers, Frame>>

\* inputInitialRadius 'blur'
InputInitialRadiusBlur(typed) ==
    /\ UserEvent
    /\ LET value == IF IsNaN(typed) THEN ui.sliderInitialRadius
                    ELSE Clamp(typed, SliderInitialRadiusMin, SliderInitialRadiusMax)
       IN  ui' = [ui EXCEPT !.sliderInitialRadius = value]
    /\ balloon' = recalculateMoles(balloon, ui')
    /\ hist' = Handled(hist, balloon')
    /\ UNCHANGED <<mode, isRunning, env, animation, selectedDirection, timers, Frame>>

\* sliderPayloadMass 'input'
SliderPayloadMassInput(value) ==
    /\ UserEvent
    /\ balloon' = [balloon EXCEPT !.massPayload = value]
    /\ hist' = Handled(hist, balloon')
    /\ UNCHANGED <<mode, isRunning, env, animation, ui, selectedDirection, timers, Frame>>

\* inputPayloadMass 'input'
InputPayloadMassInput(typed) ==
    /\ UserEvent
    /\ balloon' = IF IsNaN(typed) THEN balloon
                  ELSE [balloon EXCEPT
                            !.massPayload = Clamp(typed, SliderPayloadMassMin, SliderPayloadMassMax)]
    /\ hist' = Handled(hist, balloon')
    /\ UNCHANGED <<mode, isRunning, env, animation, ui, selectedDirection, timers, Frame>>

\* inputPayloadMass 'blur'
InputPayloadMassBlur(typed) ==
    /\ UserEvent
    /\ LET value == IF IsNaN(typed) THEN balloon.massPayload
                    ELSE Clamp(typed, SliderPayloadMassMin, SliderPayloadMassMax)
       IN  balloon' = [balloon EXCEPT !.massPayload = value]
    /\ hist' = Handled(hist, balloon')
    /\ UNCHANGED <<mode, isRunning, env, animation, ui, selectedDirection, timers, Frame>>

\* Variant of the mode-btn 'click' handler that leaves animation.active as it is.
ModeBtnClickKeepingRamp(newMode) ==
    /\ UserEvent
    /\ mode' = newMode
    /\ isRunning' = FALSE
    /\ IF newMode = "MISSION"
       THEN /\ env' = ResetMissionEnv(env)
            /\ balloon' = updateControlVisibility(newMode,
                              recalculateMoles(ResetMissionBalloon(balloon), ui))
       ELSE /\ env' = [env EXCEPT !.altitude = Zero]
            /\ balloon' = updateControlVisibility(newMode,
                              [balloon EXCEPT !.velocity = Zero, !.positionY = Zero])
    /\ hist' = [Handled(hist, balloon') EXCEPT
                    !.stale = timers, !.last = NoStep, !.prev = NoStep]
    /\ UNCHANGED <<animation, ui, selectedDirection, timers, Frame>>

\* mode-btn 'click'
ModeBtnClick(newMode) ==
    /\ UserEvent
    /\ mode' = newMode
    /\ isRunning' = FALSE
    /\ animation' = [animation EXCEPT !.active = FALSE]
    /\ IF newMode = "MISSION"
       THEN /\ env' = ResetMissionEnv(env)
            /\ balloon' = updateControlVisibility(newMode,
                              recalculateMoles(ResetMissionBalloon(balloon), ui))
       ELSE /\ env' = [env EXCEPT !.altitude = Zero]
            /\ balloon' = updateControlVisibility(newMode,
                              [balloon EXCEPT !.velocity = Zero, !.positionY = Zero])
    /\ hist' = [Handled(hist, balloon') EXCEPT
                    !.stale = timers, !.last = NoStep, !.prev = NoStep]
    /\ UNCHANGED <<ui, selectedDirection, timers, Frame>>

\* btnIncrease 'click'
BtnIncreaseClick ==
    /\ UserEvent
    /\ selectedDirection' = 1
    /\ hist' = Handled(hist, balloon)
    /\ UNCHANGED <<mode, isRunning, env, balloon, animation, ui, timers, Frame>>

\* btnDecrease 'click'
BtnDecreaseClick ==
    /\ UserEvent
    /\ selectedDirection' = -1
    /\ hist' = Handled(hist, balloon)
    /\ UNCHANGED <<mode, isRunning, env, balloon, animation, ui, timers, Frame>>

\* animation after btnStartEdu starts a ramp of parameter from startValue.
StartRamp(a, parameter, startValue, max, min) ==
    [a EXCEPT !.parameter = parameter,
              !.startValue = startValue,
              !.direction = selectedDirection,
              !.targetValue = IF selectedDirection = 1 THEN max ELSE min,
              !.currentValue = startValue,
              !.elapsed = Zero,
              !.active = TRUE]

\* btnStartEdu 'click'
BtnStartEduClick ==
    /\ UserEvent
    /\ animation' =
           IF mode = "BOYLE"
           THEN StartRamp(animation, "pressure", env.pressure, PRESSURE_MAX, PRESSURE_MIN)
           ELSE IF mode = "CHARLES" \/ mode = "GAY-LUSSAC"
           THEN StartRamp(animation, "temperature", env.temperature, TEMP_MAX, TEMP_MIN)
           ELSE animation
    /\ hist' = Handled(hist, balloon)
    /\ UNCHANGED <<mode, isRunning, env, balloon, ui, selectedDirection, timers, Frame>>

\* btnStopEdu 'click'
BtnStopEduClick ==
    /\ UserEvent
    /\ animation' = [animation EXCEPT !.active = FALSE, !.elapsed = Zero]
    /\ hist' = Handled(hist, balloon)
    /\ UNCHANGED <<mode, isRunning, env, balloon, ui, selectedDirection, timers, Frame>>

\* btnLaunch 'click'
BtnLaunchClick ==
    /\ UserEvent
    /\ isRunning' = TRUE
    /\ hist' = Handled(hist, balloon)
    /\ UNCHANGED <<mode, env, balloon, animation, ui, selectedDirection, timers, Frame>>

\* btnReset 'click': resetMissionState(); initSimulation()
BtnResetClick ==
    /\ UserEvent
    /\ env' = ResetMissionEnv(env)
    /\ balloon' = recalculateMoles(ResetMissionBalloon(balloon), ui)
    /\ isRunning' = FALSE
    /\ animation' = [animation EXCEPT !.active = FALSE]
    /\ hist' = [Handled(hist, balloon') EXCEPT !.stale = timers]
    /\ UNCHANGED <<mode, ui, selectedDirection, timers, Frame>>

\* Variant of the setTimeout callback that resets without the fill of
\* initSimulation.
ResetTimeoutWithoutFill ==
    /\ pc = "idle"
    /\ timers > 0
    /\ timers' = timers - 1
    /\ IF mode = "MISSION"
       THEN /\ env' = ResetMissionEnv(env)
            /\ balloon' = ResetMissionBalloon(balloon)
            /\ isRunning' = FALSE
            /\ animation' = [animation EXCEPT !.active = FALSE]
       ELSE /\ env' = [env EXCEPT !.altitude = Zero]
            /\ balloon' = [balloon EXCEPT !.velocity = Zero, !.positionY = Zero,
                                          !.radius = One]
            /\ UNCHANGED <<isRunning, animation>>
    /\ hist' = [hist EXCEPT !.reported = hist.reported /\ Exploded(balloon'),
                            !.stale = IF hist.stale > 0 THEN hist.stale - 1 ELSE 0]
    /\ UNCHANGED <<mode, ui, selectedDirection, Frame>>

\* The callback animate() hands to setTimeout after a burst.  It runs some time
\* after it was scheduled; callbacks run in the order they were scheduled.
ResetTimeout ==
    /\ pc = "idle"
    /\ timers > 0
    /\ timers' = timers - 1
    /\ IF mode = "MISSION"
       THEN /\ env' = ResetMissionEnv(env)
            /\ balloon' = recalculateMoles(ResetMissionBalloon(balloon), ui)
            /\ isRunning' = FALSE
            /\ animation' = [animation EXCEPT !.active = FALSE]
       ELSE /\ env' = [env EXCEPT !.altitude = Zero]
            /\ balloon' = recalculateMoles(
                              [balloon EXCEPT !.velocity = Zero, !.positionY = Zero,
                                              !.radius = One], ui)
            /\ UNCHANGED <<isRunning, animation>>
    /\ hist' = [hist EXCEPT
                    !.reported = hist.reported /\ Exploded(balloon'),
                    !.stale = IF hist.stale > 0 THEN hist.stale - 1 ELSE 0]
    /\ UNCHANGED <<mode, ui, selectedDirection, Frame>>

\* ------------------------------------------------------------------------
\* main.js: animate(), one frame in four phases
\* ------------------------------------------------------------------------

\* env and animation after the ramp update of a frame.
\* Variant of GayLussacPressure that divides by the balloon's present volume
\* instead of the volume snapshotted on entering the mode.
GayLussacPressureOfVolume(m, e, b) ==
    IF m = "GAY-LUSSAC"
    THEN [e EXCEPT !.pressure =
              RDiv(RMul(RMul(b.moles, Q(8314, 1000)), e.temperature), b.volume)]
    ELSE e

GayLussacPressure(m, e, b) ==
    IF m = "GAY-LUSSAC"
    THEN [e EXCEPT !.pressure =
              RDiv(RMul(RMul(b.moles, Q(8314, 1000)), e.temperature), b.constantVolume)]
    ELSE e

SetParameter(m, e, b, parameter, value) ==
    IF parameter = "pressure" THEN [e EXCEPT !.pressure = value]
    ELSE IF parameter = "temperature"
    THEN GayLussacPressure(m, [e EXCEPT !.temperature = value], b)
    ELSE e

\* Variant of RampUpdate that interpolates from the parameter's present value
\* instead of the value the ramp started at.
RampUpdateFromPresent(m, e, b, a, dt) ==
    IF a.active
    THEN LET elapsed == RAdd(a.elapsed, dt)
             progress == RMin(RDiv(elapsed, a.duration), One)
             present == IF a.parameter = "pressure" THEN e.pressure ELSE e.temperature
             value == RAdd(present, RMul(RSub(a.targetValue, present), progress))
             e1 == SetParameter(m, e, b, a.parameter, value)
         IN  IF RGe(progress, One)
             THEN [env |-> SetParameter(m, e1, b, a.parameter, a.targetValue),
                   animation |-> [a EXCEPT !.elapsed = elapsed, !.active = FALSE]]
             ELSE [env |-> e1, animation |-> [a EXCEPT !.elapsed = elapsed]]
    ELSE [env |-> e, animation |-> a]

\* Variant of RampUpdate that snaps to the target and leaves the ramp active.
RampUpdateWithoutStop(m, e, b, a, dt) ==
    IF a.active
    THEN LET elapsed == RAdd(a.elapsed, dt)
             progress == RMin(RDiv(elapsed, a.duration), One)
             value == RAdd(a.startValue, RMul(RSub(a.targetValue, a.startValue), progress))
             e1 == SetParameter(m, e, b, a.parameter, value)
         IN  IF RGe(progress, One)
             THEN [env |-> SetParameter(m, e1, b, a.parameter, a.targetValue),
                   animation |-> [a EXCEPT !.elapsed = elapsed]]
             ELSE [env |-> e1, animation |-> [a EXCEPT !.elapsed = elapsed]]
    ELSE [env |-> e, animation |-> a]

RampUpdate(m, e, b, a, dt) ==
    IF a.active
    THEN LET elapsed == RAdd(a.elapsed, dt)
             progress == RMin(RDiv(elapsed, a.duration), One)
             value == RAdd(a.startValue, RMul(RSub(a.targetValue, a.startValue), progress))
             e1 == SetParameter(m, e, b, a.parameter, value)
         IN  IF RGe(progress, One)
             THEN [env |-> SetParameter(m, e1, b, a.parameter, a.targetValue),
                   animation |-> [a EXCEPT !.elapsed = elapsed, !.active = FALSE]]
             ELSE [env |-> e1, animation |-> [a EXCEPT !.elapsed = elapsed]]
    ELSE [env |-> e, animation |-> a]

\* Variant of CappedDeltaTime without the cap.
UncappedDeltaTime(gap) == RDiv(Int2R(gap), Int2R(1000))

\* Math.min((currentTime - lastTime) / 1000, 0.1)
CappedDeltaTime(gap) == RMin(RDiv(Int2R(gap), Int2R(1000)), Q(1, 10))

\* Frames are started while the model's bounds allow.
WithinBounds ==
    /\ timers < MaxPendingResets
    /\ animation.active =>
           \/ RLt(animation.elapsed, Q(MaxRampTenths, 10))
           \/ RGt(animation.elapsed, RSub(animation.duration, Q(MaxRampTenths, 10)))
    /\ (mode = "MISSION" /\ isRunning) => RLe(env.altitude, Int2R(MaxAltitude))

\* animate: deltaTime and the ramp update
FrameRamp(gap) ==
    /\ pc = "idle"
    /\ WithinBounds
    /\ deltaTime' = CappedDeltaTime(gap)
    /\ \E r \in {RampUpdate(mode, env, balloon, animation, deltaTime')} :
           /\ env' = r.env
           /\ animation' = r.animation
    /\ pc' = "physics"
    /\ UNCHANGED <<mode, isRunning, balloon, ui, selectedDirection, timers, result, hist>>

\* animate: const result = simulationLoop(deltaTime)
FramePhysics ==
    /\ pc = "physics"
    /\ \E r \in {simulationLoop(mode, isRunning, env, balloon, deltaTime)} :
           /\ env' = r.env
           /\ balloon' = r.balloon
           /\ result' = r.exploded
    /\ hist' = [hist EXCEPT
                    !.reported = result',
                    !.prev = hist.last,
                    !.last = [mode |-> mode, pressure |-> env'.pressure,
                              temperature |-> env'.temperature,
                              volume |-> balloon'.volume, moles |-> balloon'.moles]]
    /\ pc' = "burst"
    /\ UNCHANGED <<mode, isRunning, animation, ui, selectedDirection, timers, deltaTime>>

\* animate's burst branch without its stops: the reset is scheduled, isRunning
\* and animation.active stay as they are.
FrameBurstWithoutStop ==
    /\ pc = "burst"
    /\ timers' = IF result THEN timers + 1 ELSE timers
    /\ pc' = "publish"
    /\ UNCHANGED <<mode, isRunning, env, balloon, animation, ui, selectedDirection,
                   deltaTime, result, hist>>

\* animate: if (result.exploded) { ...; setTimeout(reset, 3000) }
FrameBurst ==
    /\ pc = "burst"
    /\ IF result
       THEN /\ isRunning' = FALSE
            /\ animation' = [animation EXCEPT !.active = FALSE]
            /\ timers' = timers + 1
       ELSE UNCHANGED <<isRunning, animation, timers>>
    /\ pc' = "publish"
    /\ UNCHANGED <<mode, env, balloon, ui, selectedDirection, deltaTime, result, hist>>

\* animate: updateUI(); sceneManager.update(); requestAnimationFrame(animate)
FramePublish ==
    /\ pc = "publish"
    /\ ui' = updateUI(animation, env, ui)
    /\ pc' = "idle"
    /\ deltaTime' = Zero
    /\ result' = FALSE
    /\ UNCHANGED <<mode, isRunning, env, balloon, animation, selectedDirection, timers, hist>>

\* ------------------------------------------------------------------------
\* Specification
\* ------------------------------------------------------------------------

Next ==
    \/ \E g \in GasTypes : GasSelect(g)
    \/ \E v \in PressureInputs : SliderPressureInput(v)
    \/ \E v \in PressureTyped : InputPressureInput(v)
    \/ \E v \in PressureTyped : InputPressureBlur(v)
    \/ \E v \in TemperatureInputs : SliderTempInput(v)
    \/ \E v \in TemperatureTyped : InputTempInput(v)
    \/ \E v \in TemperatureTyped : InputTempBlur(v)
    \/ \E v \in MaxRadiusInputs : SliderMaxRadiusInput(v)
    \/ \E v \in MaxRadiusTyped : InputMaxRadiusInput(v)
    \/ \E v \in MaxRadiusTyped : InputMaxRadiusBlur(v)
    \/ \E v \in InitialRadiusInputs : SliderInitialRadiusInput(v)
    \/ \E v \in InitialRadiusTyped : InputInitialRadiusInput(v)
    \/ \E v \in InitialRadiusTyped : InputInitialRadiusBlur(v)
    \/ \E v \in PayloadInputs : SliderPayloadMassInput(v)
    \/ \E v \in PayloadTyped : InputPayloadMassInput(v)
    \/ \E v \in PayloadTyped : InputPayloadMassBlur(v)
    \/ \E m \in Modes : ModeBtnClick(m)
    \/ BtnIncreaseClick
    \/ BtnDecreaseClick
    \/ BtnStartEduClick
    \/ BtnStopEduClick
    \/ BtnLaunchClick
    \/ BtnResetClick
    \/ ResetTimeout
    \/ \E gap \in FrameGaps : FrameRamp(gap)
    \/ FramePhysics
    \/ FrameBurst
    \/ FramePublish

Spec == Init /\ [][Next]_vars

\* The program late in a ramp: between two frames, MaxRampTenths tenths of a
\* second (less half a frame) before the ramp's duration is over, after a mode
\* button, the direction buttons and btnStartEdu brought it from the initial
\* state into the ramp.  The frame that ended last is computed as animate()
\* computes every frame of a ramp; outside Mission mode the engine step of a
\* frame is its gas-law part.
EduModes == {"BOYLE", "CHARLES", "GAY-LUSSAC"}

\* balloon and animation when btnStartEdu has been clicked in mode m.
RampBalloon(m) == updateControlVisibility(m, recalculateMoles(initialBalloon, initialUi))

RampStarted(m) ==
    IF m = "BOYLE"
    THEN StartRamp(initialAnimation, "pressure", initialEnv.pressure,
                   PRESSURE_MAX, PRESSURE_MIN)
    ELSE StartRamp(initialAnimation, "temperature", initialEnv.temperature,
                   TEMP_MAX, TEMP_MIN)

\* animation.elapsed before the frame that ended last.
RampElapsed == RSub(RSub(initialAnimation.duration, Q(MaxRampTenths, 10)), Q(1, 20))

RampInit ==
    /\ mode \in EduModes
    /\ selectedDirection \in {1, -1}
    /\ isRunning = FALSE
    /\ ui = initialUi
    /\ timers = 0
    /\ pc = "idle"
    /\ deltaTime = Zero
    /\ result = FALSE
    /\ hist = [stale |-> 0, reported |-> FALSE, events |-> MaxEvents - 1, last |-> NoStep,
               prev |-> NoStep]
    /\ \E b0 \in {RampBalloon(mode)} :
       \E a0 \in {[RampStarted(mode) EXCEPT !.elapsed = RampElapsed]} :
       \E r \in {RampUpdate(mode, initialEnv, b0, a0, Q(1, 10))} :
           /\ env = r.env
           /\ balloon = GasLaws(mode, r.env, b0)
           /\ animation = r.animation

RampSpec == RampInit /\ [][Next]_vars

\* The program in Mission mode right after btnLaunch, the payload slider at
\* its largest value: the balloon is too heavy to rise.
LaunchInit ==
    /\ mode = "MISSION"
    /\ isRunning = TRUE
    /\ env = ResetMissionEnv(initialEnv)
    /\ balloon = [updateControlVisibility("MISSION",
                      recalculateMoles(ResetMissionBalloon(initialBalloon), initialUi))
                  EXCEPT !.massPayload = SliderPayloadMassMax]
    /\ animation = initialAnimation
    /\ ui = initialUi
    /\ selectedDirection = 1
    /\ timers = 0
    /\ pc = "idle"
    /\ deltaTime = Zero
    /\ result = FALSE
    /\ hist = [stale |-> 0, reported |-> FALSE, events |-> MaxEvents - 1, last |-> NoStep,
               prev |-> NoStep]

LaunchSpec == LaunchInit /\ [][Next]_vars

\* The engine step of a Mission frame at a given altitude.  simulationLoop
\* calls getAtmosphere with env.altitude + velocity * deltaTime; the balloon is
\* at rest here, so that is the altitude drawn.  Altitudes: just below the
\* floor, every 500 m up to 40 km, the altitude 293 / 0.0065 at which the base
\* of the barometric formula is 0, and altitudes above it.
Altitudes ==
    {Q(-1, 20)} \cup {Int2R(500 * k) : k \in 0..80}
        \cup {Q(586000, 13), Int2R(45100), Int2R(46000), Int2R(50000), Int2R(60000)}

AtmosphereInit ==
    /\ mode = "MISSION"
    /\ isRunning = TRUE
    /\ \E a \in Altitudes :
           env = [ResetMissionEnv(initialEnv) EXCEPT !.altitude = a]
    /\ balloon = [updateControlVisibility("MISSION",
                      recalculateMoles(ResetMissionBalloon(initialBalloon), initialUi))
                  EXCEPT !.positionY = env.altitude]
    /\ animation = initialAnimation
    /\ ui = initialUi
    /\ selectedDirection = 1
    /\ timers = 0
    /\ pc = "physics"
    /\ deltaTime \in {CappedDeltaTime(gap) : gap \in FrameGaps}
    /\ result = FALSE
    /\ hist = [stale |-> 0, reported |-> FALSE, events |-> MaxEvents, last |-> NoStep,
               prev |-> NoStep]

\* The rest of the frame: the engine step, the burst handling, the display.
AtmosphereNext == FramePhysics \/ FrameBurst \/ FramePublish

AtmosphereSpec == AtmosphereInit /\ [][AtmosphereNext]_vars

\* The engine step of a frame that finds no pressure.  In Mission mode while
\* running the step takes the pressure from getAtmosphere, which returns 0
\* above 45 km; in the other cases it takes env.pressure as it finds it, so
\* env.pressure itself is drawn, from the sea-level value, 0 and a negative
\* value.
VacuumAltitudes == {Zero, Int2R(46000)}

VacuumPressures == {Int2R(101325), Zero, Int2R(-1)}

VacuumInit ==
    /\ mode \in Modes
    /\ isRunning \in BOOLEAN
    /\ \E a \in VacuumAltitudes : \E p \in VacuumPressures :
           /\ mode = "MISSION" \/ a = Zero
           /\ env = [initialEnv EXCEPT !.altitude = a, !.pressure = p]
    /\ balloon = [RampBalloon(mode) EXCEPT !.positionY = env.altitude]
    /\ animation = initialAnimation
    /\ ui = initialUi
    /\ selectedDirection = 1
    /\ timers = 0
    /\ pc = "physics"
    /\ deltaTime \in {CappedDeltaTime(gap) : gap \in FrameGaps}
    /\ result = FALSE
    /\ hist = [stale |-> 0, reported |-> FALSE, events |-> MaxEvents, last |-> NoStep,
               prev |-> NoStep]

VacuumSpec == VacuumInit /\ [][AtmosphereNext]_vars

\* ------------------------------------------------------------------------
\* Properties
\* ------------------------------------------------------------------------

\* The step of a frame in which animate() calls simulationLoop.
EngineStep == pc = "physics" /\ pc' = "burst"

\* a and b are equal within the tolerance of the arithmetic: equal, or finite
\* and no further apart than a ten-thousandth of b.
NearlyEqual(a, b) ==
    \/ a = b
    \/ /\ IsFinite(a) /\ IsFinite(b) /\ b.n # 0
       /\ LET e == RDiv(RSub(a, b), b)
          IN  RLe([n |-> Abs(e.n), d |-> e.d], Q(1, 10000))

\* The handlers of the pressure controls and of the temperature controls.
PressureInput ==
    \/ \E v \in PressureInputs : SliderPressureInput(v)
    \/ \E v \in PressureTyped : InputPressureInput(v)
    \/ \E v \in PressureTyped : InputPressureBlur(v)

TemperatureInput ==
    \/ \E v \in TemperatureInputs : SliderTempInput(v)
    \/ \E v \in TemperatureTyped : InputTempInput(v)
    \/ \E v \in TemperatureTyped : InputTempBlur(v)

\* The events that the program answers with recalculateMoles, or that enter a
\* mode.
FillEvent ==
    \/ \E v \in InitialRadiusInputs : SliderInitialRadiusInput(v)
    \/ \E v \in InitialRadiusTyped : InputInitialRadiusInput(v)
    \/ \E v \in InitialRadiusTyped : InputInitialRadiusBlur(v)
    \/ \E m \in Modes : ModeBtnClick(m)
    \/ BtnResetClick
    \/ ResetTimeout

\* C1: once a frame's engine step has reported exploded=true, no engine step
\* runs until the delayed reset scheduled by that frame has fired; that is, an
\* engine step never completes while a delayed reset is pending.
C1_EngineInertUntilReset == pc = "burst" => timers = 0

\* C2: a delayed reset that was pending when the mode was switched or Reset
\* was clicked never runs afterwards (it was cancelled): whenever a delayed
\* reset runs, none of the pending ones predates the latest switch or Reset.
C2_PendingResetCancelled == [][timers' < timers => hist.stale = 0]_vars

\* C3: the engine step reports exploded=true once per crossing of the burst
\* threshold: a step taken when an earlier step has reported the burst and
\* radius >= maxRadius has held ever since does not report exploded=true.
C3_ExplodedOncePerCrossing == [][(EngineStep /\ hist.reported) => ~result']_vars

\* C4: in every mode the engine step reports exploded=true exactly when
\* radius >= maxRadius at its end, and it resets nothing because of the burst:
\* mode, isRunning, moles and maxRadius are as before the step, pressure and
\* temperature too unless the atmosphere of a running mission set them, and
\* volume and radius are what the gas law of the mode gives (kept in
\* Gay-Lussac, n R T / P and its radius otherwise).
C4_ExplodedIffRadiusAtLimit ==
    [][EngineStep =>
        /\ result' <=> (RSub(balloon'.radius, balloon'.maxRadius).n >= 0)
        /\ mode' = mode /\ isRunning' = isRunning
        /\ balloon'.moles = balloon.moles /\ balloon'.maxRadius = balloon.maxRadius
        /\ ~(mode = "MISSION" /\ isRunning) =>
               env'.pressure = env.pressure /\ env'.temperature = env.temperature
        /\ IF mode = "GAY-LUSSAC"
           THEN balloon'.volume = balloon.volume /\ balloon'.radius = balloon.radius
           ELSE /\ balloon'.volume = IF env'.pressure.n <= 0 THEN Infinity
                                     ELSE RDiv(RMul(RMul(balloon.moles, R), env'.temperature),
                                               env'.pressure)
                /\ balloon'.radius = RadiusOfVolume(balloon'.volume)]_vars

\* C4 witness: a step has just reported a burst with the radius exactly at
\* maxRadius.
C4_Witness == pc = "burst" /\ result /\ balloon.radius = balloon.maxRadius

\* C5: a handler of a pressure control changes env.pressure only in IDLE and
\* BOYLE, a handler of a temperature control changes env.temperature only in
\* IDLE, CHARLES and GAY-LUSSAC (so neither changes anything in MISSION).
C5_InputsHonourMode ==
    [][/\ (PressureInput /\ ~PressureAllowed) => env'.pressure = env.pressure
       /\ (TemperatureInput /\ ~TemperatureAllowed) =>
              env'.temperature = env.temperature]_vars

\* C6: balloon.moles changes only in a fill event; engine steps, ramp updates,
\* pressure, temperature, maxRadius and payload inputs, gas selection, Launch
\* and Stop leave it as it is.
C6_MolesChangeOnlyAtFill == [][balloon'.moles # balloon.moles => FillEvent]_vars

\* C6 witness: a ramp update and an engine step have run during a ramp, and
\* the moles are still those of the fill at start-up.
C6_Witness ==
    /\ pc = "burst"
    /\ animation.active
    /\ animation.elapsed # Zero
    /\ balloon.moles = calculateMoles(SeaLevelPressure, InitialVolume(DefaultRadius),
                                      SeaLevelTemperature)

\* C7: every mode switch resets the balloon through a fill: right after it
\* radius and volume are those of the initial radius, moles = P V / (R T) for
\* the pressure and temperature of the state, altitude, positionY and velocity
\* are 0, isRunning is false and no ramp is active.
C7_ModeSwitchResets ==
    [][(\E m \in Modes : ModeBtnClick(m)) =>
        /\ balloon'.radius = ui'.sliderInitialRadius
        /\ balloon'.volume = InitialVolume(ui'.sliderInitialRadius)
        /\ NearlyEqual(balloon'.moles,
                       calculateMoles(env'.pressure, balloon'.volume, env'.temperature))
        /\ env'.altitude = Zero
        /\ balloon'.positionY = Zero
        /\ balloon'.velocity = Zero
        /\ ~isRunning'
        /\ ~animation'.active]_vars

\* C8: in GAY-LUSSAC no engine step changes balloon.volume or balloon.radius.
C8_GayLussacKeepsVolume ==
    [][(EngineStep /\ mode = "GAY-LUSSAC") =>
        balloon'.volume = balloon.volume /\ balloon'.radius = balloon.radius]_vars

\* C8 witness: two steps have run in GAY-LUSSAC, the temperature changed
\* between them, and the volume is the one the mode was entered with.
C8_Witness ==
    /\ pc = "burst"
    /\ mode = "GAY-LUSSAC"
    /\ hist.prev.mode = "GAY-LUSSAC"
    /\ hist.last.temperature # hist.prev.temperature
    /\ balloon.volume = balloon.constantVolume

\* C9: in GAY-LUSSAC pressure / temperature is the same at the end of every
\* frame, however the temperature was changed.  Stated for the frames before
\* which nothing touched the pressure: the ratio after such a frame's step is
\* the ratio after the step before it.
C9_GayLussacRatioConstant ==
    [][(/\ EngineStep
        /\ mode = "GAY-LUSSAC"
        /\ hist.last.mode = "GAY-LUSSAC"
        /\ env.pressure = hist.last.pressure) =>
        NearlyEqual(RDiv(env'.pressure, env'.temperature),
                    RDiv(hist.last.pressure, hist.last.temperature))]_vars

\* C10 as stated: in BOYLE, two successive engine steps with the same
\* temperature end with the same pressure * volume, within the tolerance of
\* the arithmetic.
C10_BoyleProductConstant ==
    (/\ hist.last.mode = "BOYLE"
     /\ hist.prev.mode = "BOYLE"
     /\ hist.last.temperature = hist.prev.temperature) =>
    NearlyEqual(RMul(hist.last.pressure, hist.last.volume),
                RMul(hist.prev.pressure, hist.prev.volume))

\* C10: in BOYLE, two successive engine steps with the same temperature and
\* the same moles (no fill changed the amount of gas between them) end with
\* the same pressure * volume, within the tolerance of the arithmetic.
C10_BoyleProductConstantMoles ==
    (/\ hist.last.mode = "BOYLE"
     /\ hist.prev.mode = "BOYLE"
     /\ hist.last.temperature = hist.prev.temperature
     /\ hist.last.moles = hist.prev.moles) =>
    NearlyEqual(RMul(hist.last.pressure, hist.last.volume),
                RMul(hist.prev.pressure, hist.prev.volume))

\* C10 witness: two successive steps in BOYLE at the same temperature and
\* moles, and at different pressures.
C10_Witness ==
    /\ hist.last.mode = "BOYLE"
    /\ hist.prev.mode = "BOYLE"
    /\ hist.last.temperature = hist.prev.temperature
    /\ hist.last.moles = hist.prev.moles
    /\ hist.last.pressure # hist.prev.pressure

\* C11 as stated: in CHARLES, two successive engine steps with the same
\* pressure end with the same volume / temperature, within the tolerance of
\* the arithmetic.
C11_CharlesRatioConstant ==
    (/\ hist.last.mode = "CHARLES"
     /\ hist.prev.mode = "CHARLES"
     /\ hist.last.pressure = hist.prev.pressure) =>
    NearlyEqual(RDiv(hist.last.volume, hist.last.temperature),
                RDiv(hist.prev.volume, hist.prev.temperature))

\* C11: in CHARLES, two successive engine steps with the same pressure and
\* the same moles (no fill changed the amount of gas between them) end with
\* the same volume / temperature, within the tolerance of the arithmetic.
C11_CharlesRatioConstantMoles ==
    (/\ hist.last.mode = "CHARLES"
     /\ hist.prev.mode = "CHARLES"
     /\ hist.last.pressure = hist.prev.pressure
     /\ hist.last.moles = hist.prev.moles) =>
    NearlyEqual(RDiv(hist.last.volume, hist.last.temperature),
                RDiv(hist.prev.volume, hist.prev.temperature))

\* C11 witness: two successive steps in CHARLES at the same pressure and
\* moles, and at different temperatures.
C11_Witness ==
    /\ hist.last.mode = "CHARLES"
    /\ hist.prev.mode = "CHARLES"
    /\ hist.last.pressure = hist.prev.pressure
    /\ hist.last.moles = hist.prev.moles
    /\ hist.last.temperature # hist.prev.temperature

\* The balloon is as recalculateMoles leaves it when the page's pressure and
\* temperature are those of env: a fill (P, T, r) with P, T, r > 0.
JustFilled ==
    /\ RGt(env.pressure, Zero) /\ RGt(env.temperature, Zero) /\ RGt(balloon.radius, Zero)
    /\ balloon = recalculateMoles(balloon, [sliderPressure |-> env.pressure,
                                            sliderTemp |-> env.temperature,
                                            sliderInitialRadius |-> balloon.radius])

\* C12: round trip.  An engine step in Free mode that finds the balloon as a
\* fill with pressure P, temperature T and radius r left it, with env still at
\* P and T, ends with balloon.radius = r and balloon.volume = (4/3)*pi*r^3.
C12_FillStepRoundTrip ==
    [][(EngineStep /\ mode = "IDLE" /\ JustFilled) =>
          /\ NearlyEqual(balloon'.radius, balloon.radius)
          /\ NearlyEqual(balloon'.volume, InitialVolume(balloon.radius))]_vars

\* An engine step in Free mode has ended on a balloon filled to radius 2 at
\* 50000 Pa, neither of which is the initial value.
C12_Witness ==
    /\ pc = "burst" /\ mode = "IDLE" /\ hist.last.mode = "IDLE"
    /\ env.pressure = Int2R(50000)
    /\ balloon.radius = Int2R(2)
    /\ NearlyEqual(balloon.volume, InitialVolume(Int2R(2)))
    /\ balloon.moles = calculateMoles(env.pressure, InitialVolume(Int2R(2)), env.temperature)

\* The frame step in which animate() updates an active ramp.
RampFrame == pc = "idle" /\ pc' = "physics" /\ animation.active

\* The environment scalar a ramp drives.
RampedValue(e, a) == IF a.parameter = "pressure" THEN e.pressure ELSE e.temperature

\* C13: after the ramp update of a frame the ramped parameter is
\* start + (target - start) * min(elapsed / duration, 1); in the frame where
\* elapsed reaches or exceeds duration it is exactly target and the ramp is
\* no longer active.
C13_RampInterpolatesAndSnaps ==
    [][RampFrame =>
          LET progress == RMin(RDiv(animation'.elapsed, animation.duration), One)
              expected == RAdd(animation.startValue,
                               RMul(RSub(animation.targetValue, animation.startValue),
                                    progress))
          IN  /\ NearlyEqual(RampedValue(env', animation), expected)
              /\ RGe(animation'.elapsed, animation.duration) =>
                     /\ RampedValue(env', animation) = animation.targetValue
                     /\ ~animation'.active]_vars

\* A ramp update has ended a ramp beyond its duration, the parameter on target.
C13_Witness ==
    /\ pc = "physics" /\ ~animation.active
    /\ RGt(animation.elapsed, animation.duration)
    /\ RampedValue(env, animation) = animation.targetValue

\* C14: in Gay-Lussac mode, after every ramp update of an active temperature
\* ramp (interpolating or snapping to the target),
\* env.pressure = moles * R * env.temperature / balloon.constantVolume.
C14_GayLussacRampPressure ==
    [][(RampFrame /\ mode = "GAY-LUSSAC" /\ animation.parameter = "temperature") =>
          env'.pressure = RDiv(RMul(RMul(balloon.moles, R), env'.temperature),
                               balloon.constantVolume)]_vars

\* A temperature ramp in Gay-Lussac mode has just snapped to its target, after
\* a fill that left the balloon's volume different from constantVolume.
C14_Witness ==
    /\ pc = "physics" /\ mode = "GAY-LUSSAC" /\ ~animation.active
    /\ RGt(animation.elapsed, animation.duration)
    /\ env.temperature = animation.targetValue
    /\ balloon.volume # balloon.constantVolume
    /\ env.pressure = RDiv(RMul(RMul(balloon.moles, R), env.temperature),
                           balloon.constantVolume)
    /\ env.pressure # Int2R(101325)

\* C15: the time step of every frame is between 0 and 0.1 s whatever the gap
\* between the frames' timestamps: it is what the engine step receives, and
\* what the ramp update of the same frame adds to animation.elapsed.
C15_TimeStepCapped ==
    [][/\ (pc = "idle" /\ pc' = "physics") =>
              /\ RLe(Zero, deltaTime') /\ RLe(deltaTime', Q(1, 10))
              /\ animation.active => animation'.elapsed = RAdd(animation.elapsed, deltaTime')
       /\ EngineStep => RLe(Zero, deltaTime) /\ RLe(deltaTime, Q(1, 10))]_vars

\* An engine step has run with dt = 0.1 in the second frame of a ramp, whose
\* elapsed time is 0.2.
C15_Witness ==
    /\ pc = "burst" /\ deltaTime = Q(1, 10)
    /\ animation.active /\ animation.elapsed = Q(2, 10)

\* C16: env.altitude >= 0 at the end of every engine step and between frames;
\* an engine step in Mission mode while running whose altitude update goes
\* below 0 ends with altitude = 0, positionY = 0 and velocity = 0.
C16_AltitudeNeverNegative ==
    /\ [](RGe(env.altitude, Zero))
    /\ [][(/\ EngineStep /\ mode = "MISSION" /\ isRunning
           /\ RLt(RAdd(env.altitude, RMul(balloon.velocity, deltaTime)), Zero)) =>
              /\ env'.altitude = Zero
              /\ balloon'.positionY = Zero
              /\ balloon'.velocity = Zero]_vars

\* An engine step with dt = 0.1 has stopped the overloaded balloon on the
\* floor: without the collision its velocity would not be 0 after that step.
C16_Witness ==
    /\ pc = "burst" /\ mode = "MISSION" /\ isRunning /\ deltaTime = Q(1, 10)
    /\ balloon.massPayload = SliderPayloadMassMax
    /\ hist.prev.mode = "MISSION"
    /\ env.altitude = Zero /\ balloon.positionY = Zero /\ balloon.velocity = Zero

\* C17: for every altitude the atmosphere model returns temperature =
\* max(T0 - L * altitude, 1), hence at least 1, and a pressure that is never
\* negative and is 0 exactly when the base 1 - L * altitude / T0 is <= 0;
\* neither value is NaN or infinite.
C17_AtmosphereClamped ==
    [][(EngineStep /\ mode = "MISSION" /\ isRunning) =>
           LET altitude == RAdd(env.altitude, RMul(balloon.velocity, deltaTime))
               T0 == Int2R(293)
               L == Q(65, 10000)
               base == RSub(One, RDiv(RMul(L, altitude), T0))
           IN  /\ env'.temperature = RMax(RSub(T0, RMul(L, altitude)), One)
               /\ RGe(env'.temperature, One)
               /\ RGe(env'.pressure, Zero)
               /\ (env'.pressure = Zero) <=> RLe(base, Zero)
               /\ IsFinite(env'.temperature) /\ IsFinite(env'.pressure)]_vars

\* An engine step at 46 km, above the model's atmosphere: temperature at its
\* lower limit, pressure 0.
C17_Witness ==
    /\ pc = "burst"
    /\ mode = "MISSION"
    /\ hist.last.mode = "MISSION"
    /\ env.altitude = Int2R(46000)
    /\ env.temperature = One
    /\ env.pressure = Zero

\* C18: when the engine step finds env.pressure <= 0 in a mode other than
\* GAY-LUSSAC, the step completes and leaves balloon.volume and balloon.radius
\* infinite.
C18_VacuumGivesInfiniteVolume ==
    [][(EngineStep /\ mode # "GAY-LUSSAC" /\ RLe(env'.pressure, Zero)) =>
           /\ balloon'.volume = Infinity
           /\ balloon'.radius = Infinity]_vars

\* An engine step in Boyle mode with no pressure has ended with an infinite
\* balloon.
C18_Witness ==
    /\ pc = "burst"
    /\ mode = "BOYLE"
    /\ hist.last.mode = "BOYLE"
    /\ env.pressure = Zero
    /\ balloon.volume = Infinity
    /\ balloon.radius = Infinity

\* C19: whenever the ramp is active the mode is BOYLE, CHARLES or GAY-LUSSAC
\* (never MISSION or IDLE) and the ramped parameter is the pressure in BOYLE and
\* the temperature in CHARLES and GAY-LUSSAC; the mode does not change within
\* a frame, so no frame applies a ramp update and also runs the Mission
\* environment update.
C19_RampExcludesFlight ==
    /\ [](animation.active =>
              /\ mode \in {"BOYLE", "CHARLES", "GAY-LUSSAC"}
              /\ animation.parameter = IF mode = "BOYLE" THEN "pressure" ELSE "temperature")
    /\ [][/\ RampFrame => mode # "MISSION"
          /\ pc # "idle" => mode' = mode]_vars

\* A frame of an active Charles ramp has applied its ramp update and is about
\* to run the engine step.
C19_Witness ==
    /\ pc = "physics"
    /\ mode = "CHARLES"
    /\ animation.active
    /\ animation.parameter = "temperature"
    /\ deltaTime = Q(1, 10)
    /\ env.temperature = animation.currentValue

\* Lift, weight and total mass of the balloon b in the air of e, as the engine
\* step computes them.
LiftForce(e, b) ==
    RMul(RMul(RDiv(RMul(e.pressure, Q(289644, 10000000)), RMul(R, e.temperature)),
              b.volume), e.gravity)

TotalMass(b) ==
    RAdd(RAdd(b.massPayload, b.massBalloon), RMul(b.moles, MolarMass(b.gasType)))

GravityForce(e, b) == RMul(TotalMass(b), e.gravity)

\* C20: in MISSION mode while running, an engine step with deltaTime = 0.1 taken
\* at altitude 0 and velocity 0 with lift above weight leaves a velocity that
\* is positive and equals (lift - weight) / totalMass * deltaTime.
C20_LiftOffVelocity ==
    [][(/\ EngineStep
        /\ mode = "MISSION" /\ isRunning
        /\ env.altitude = Zero /\ balloon.velocity = Zero
        /\ deltaTime = Q(1, 10)
        /\ RGt(LiftForce(env', balloon'), GravityForce(env', balloon'))) =>
           /\ RGt(balloon'.velocity, Zero)
           /\ balloon'.velocity =
                  RMul(RDiv(RSub(LiftForce(env', balloon'), GravityForce(env', balloon')),
                            TotalMass(balloon')), deltaTime)]_vars

\* The first engine step after launch with the default helium balloon and
\* payload has ended: still on the ground, moving upwards.
C20_Witness ==
    /\ pc = "burst"
    /\ mode = "MISSION"
    /\ isRunning
    /\ hist.last.mode = "MISSION"
    /\ deltaTime = Q(1, 10)
    /\ balloon.gasType = "HE"
    /\ balloon.massPayload = Q(1, 2)
    /\ env.altitude = Zero
    /\ RGt(LiftForce(env, balloon), GravityForce(env, balloon))
    /\ RGt(balloon.velocity, Zero)

\* C23: at the end of any frame whose engine step reported exploded=true (after
\* its burst handling, and when the frame returns to the event loop),
\* isRunning = false, animation.active = false and a delayed reset is pending.
C23_BurstFrameStopsAndSchedules ==
    /\ []((pc = "publish" /\ result) =>
              ~isRunning /\ ~animation.active /\ timers > 0)
    /\ [][(pc = "publish" /\ pc' = "idle" /\ result) =>
              ~isRunning' /\ ~animation'.active /\ timers' > 0]_vars

\* A burst has stopped a ramp before its duration was over: the frame's burst
\* handling is done, the ramp is inactive and one reset is pending.
C23_Witness ==
    /\ pc = "publish" /\ result
    /\ mode \in EduModes
    /\ RLt(animation.elapsed, animation.duration)
    /\ ~animation.active /\ ~isRunning
    /\ timers = 1

\* C24: an engine step in a mode other than Mission, or in Mission while
\* isRunning is false, leaves env.altitude, balloon.positionY,
\* balloon.velocity, env.pressure and env.temperature unchanged; of the state
\* it changes at most balloon.volume and balloon.radius.
C24_StepOutsideFlightOnlyResizes ==
    [][(EngineStep /\ ~(mode = "MISSION" /\ isRunning)) =>
          /\ env'.altitude = env.altitude
          /\ balloon'.positionY = balloon.positionY
          /\ balloon'.velocity = balloon.velocity
          /\ env'.pressure = env.pressure
          /\ env'.temperature = env.temperature
          /\ env' = env
          /\ balloon' = [balloon EXCEPT !.volume = balloon'.volume,
                                        !.radius = balloon'.radius]
          /\ UNCHANGED <<mode, isRunning, animation, ui, selectedDirection, timers>>]_vars

\* An engine step in Free mode has ended after the pressure slider was moved:
\* the pressure is the slider's, the balloon has a new volume and radius.
C24_Witness ==
    /\ pc = "burst" /\ mode = "IDLE" /\ hist.last.mode = "IDLE"
    /\ env.pressure = Int2R(50000)
    /\ env.temperature = SeaLevelTemperature
    /\ env.altitude = Zero
    /\ balloon.volume # InitialVolume(DefaultRadius)
    /\ balloon.radius # DefaultRadius

\* C25: each frame performs, in this order and with no input handler or timer
\* callback in between, the ramp update, one engine step, the burst handling
\* and the publication: from the ramp update on, every step of the program is
\* the frame's next part until the frame is over.  The engine step therefore
\* finds pressure and temperature as the ramp update of its own frame wrote
\* them: while a ramp is active the ramped parameter the step sees is the
\* interpolation for the elapsed time that includes this frame's deltaTime.
C25_FrameRunsInOrder ==
    /\ [][/\ pc = "idle" =>
                 \/ pc' = "idle"
                 \/ \E gap \in FrameGaps : FrameRamp(gap)
          /\ pc = "physics" => FramePhysics
          /\ pc = "burst" => FrameBurst
          /\ pc = "publish" => FramePublish]_vars
    /\ []((pc = "physics" /\ animation.active) =>
              NearlyEqual(RampedValue(env, animation),
                          RAdd(animation.startValue,
                               RMul(RSub(animation.targetValue, animation.startValue),
                                    RDiv(animation.elapsed, animation.duration)))))

\* The engine step of the second frame of a Boyle ramp has run: the pressure
\* it recorded is the one the ramp update of that frame wrote, 0.2 s into the
\* ramp.
C25_Witness ==
    /\ pc = "burst" /\ mode = "BOYLE" /\ animation.active
    /\ animation.elapsed = Q(2, 10)
    /\ hist.last.mode = "BOYLE" /\ hist.prev.mode = "BOYLE"
    /\ hist.last.pressure = env.pressure
    /\ hist.last.pressure # hist.prev.pressure
    /\ NearlyEqual(env.pressure,
                   RAdd(animation.startValue,
                        RMul(RSub(animation.targetValue, animation.startValue),
                             Q(2, 100))))

\* C26: balloon.positionY equals env.altitude in every reachable state: after
\* every engine step, input handler, mode switch and reset.
C26_PositionIsAltitude == balloon.positionY = env.altitude

\* An engine step of a running mission has ended above the ground, positionY
\* at the new altitude.
C26_Witness ==
    /\ pc = "burst" /\ mode = "MISSION" /\ isRunning
    /\ hist.last.mode = "MISSION"
    /\ RGt(env.altitude, Zero)
    /\ balloon.positionY = env.altitude

\* C27: at most one delayed post-burst reset is pending at any time (and so
\* each burst is answered by exactly one run of the reset callback).
C27_AtMostOnePendingReset == timers <= 1

\* C28: while the mode is GAY-LUSSAC, balloon.constantVolume equals
\* balloon.volume and is positive in every reachable state: after every input
\* handler (an initial-radius change in particular), frame and post-burst
\* reset.
C28_ConstantVolumeIsVolume ==
    mode = "GAY-LUSSAC" =>
        /\ balloon.constantVolume = balloon.volume
        /\ RGt(balloon.constantVolume, Zero)

C22_FillUsesCurrentEnvironment ==
    [][(ModeBtnClick("MISSION") \/ BtnResetClick \/ ResetTimeout) =>
          /\ balloon'.radius = ui'.sliderInitialRadius
          /\ balloon'.volume = InitialVolume(ui'.sliderInitialRadius)
          /\ NearlyEqual(RMul(RMul(balloon'.moles, R), env'.temperature),
                         RMul(env'.pressure, balloon'.volume))]_vars

\* The steps of the program as its scheduling sees them: the burst handling
\* and the publication of a frame, and a run of a delayed reset (the engine
\* step is EngineStep).
BurstHandling == pc = "burst" /\ pc' = "publish"

Publication == pc = "publish" /\ pc' = "idle"

ResetRun == pc = "idle" /\ timers > 0 /\ timers' = timers - 1

\* The program with its scheduling.  animate() runs to its end once it has
\* begun, so the parts of a frame that follow the ramp update are taken; the
\* browser runs a setTimeout callback once its delay is over, between two
\* frames, however many frames there are, so a pending delayed reset that can
\* run again and again does run.
Scheduling ==
    /\ WF_pc(EngineStep)
    /\ WF_pc(BurstHandling)
    /\ WF_pc(Publication)
    /\ SF_timers(ResetRun)

FairSpec == Init /\ [][Next]_vars /\ Scheduling

FrameBegins ==
    /\ pc = "idle"
    /\ pc' = "physics"
    /\ deltaTime' = [n |-> 1, d |-> 10]

\* The program late in a ramp, with its scheduling and with frames that keep
\* occurring with deltaTime > 0: requestAnimationFrame calls animate() again
\* and again, with timestamps that grow.
FairRampSpec ==
    RampInit /\ [][Next]_vars /\ Scheduling /\ SF_<<pc, deltaTime>>(FrameBegins)

\* C30: an active ramp always terminates.  As long as frames keep occurring
\* with deltaTime > 0, a ramp that is active becomes inactive; it is never
\* active once its elapsed time has reached the duration, and the duration is
\* the 10 s of state.js; and an inactive ramp becomes active only by
\* btnStartEdu.
C30_RampTerminates ==
    /\ animation.active ~> ~animation.active
    /\ [](animation.active =>
              /\ RLt(animation.elapsed, animation.duration)
              /\ animation.duration = Int2R(10))
    /\ [][(~animation.active /\ animation'.active) => BtnStartEduClick]_vars

\* A ramp has run to its end: between two frames it is inactive, its elapsed
\* time beyond the duration, nothing having stopped it before.
C30_Witness ==
    /\ pc = "idle" /\ ~animation.active
    /\ RGe(animation.elapsed, animation.duration)
    /\ mode \in EduModes
    /\ timers = 0
    /\ hist.events = MaxEvents - 1

====
